---- MODULE Spec2Model ----
(***************************************************************************)
(* The two notebook pipelines of the repository                            *)
(*   house_pipe   (M6N3-Regression-house-prices.ipynb, lines 594-624)      *)
(*   titanic_pipe (M6N2-Classification-titanic.ipynb,  lines 456-476)      *)
(* as a state machine: a scikit-learn Pipeline object whose steps are the  *)
(* feature_engine / scikit-learn transformers the notebooks configure,     *)
(* driven by fit(X, y) and predict(X) calls.  Each stage's fit and         *)
(* transform is computed the way the configured transformer computes it.   *)
(*                                                                         *)
(* Representation.  A dataset is [cols, repr, rows]: the ordered column    *)
(* names, the representation of each column's cells ("str" for object      *)
(* columns holding labels, "int" for numbers) and the rows, each a         *)
(* function from column name to cell.  Numbers are fixed-point integers in *)
(* units of 1/Unit, so medians of two values and the linear interpolation  *)
(* of the quintiles stay exact.  A missing entry is NaN in an "int"        *)
(* column and NaNObj in a "str" column.                                    *)
(***************************************************************************)
EXTENDS Integers, Sequences, FiniteSets, TLC

\* ------------------------------------------------------------------ values

\* fixed-point resolution: the number 1.0 is the integer Unit
Unit == 2 * 5
Num(x) == x * Unit

\* pandas' missing marker in a numeric column / in an object column
NaN == -1000000
NaNObj == "nan"
\* the open ends the discretiser gives its first and last bin
NegInf == -900000
PosInf == 900000

\* f itself, with the value of every element computed (a function written
\* [x \in S |-> e] is otherwise recomputed at each application)
Eager(f) == f @@ <<>>

Range(s) == {s[i] : i \in DOMAIN s}
Index(s, x) == CHOOSE i \in DOMAIN s : s[i] = x
Min2(a, b) == IF a <= b THEN a ELSE b

\* a standardised cell is the triple <<n*x - sum, n*sumsq - sum^2, n>> of the
\* column's training statistics: (x - mean) / std = t[1] / sqrt(t[2]), and
\* t[1] / t[3] when the column has zero variance (scale_ is then 1)
ScaledNaN == <<NaN, 0, 0>>

IsNull(ds, c, v) ==
    CASE ds.repr[c] = "int" -> v = NaN
      [] ds.repr[c] = "str" -> v = NaNObj
      [] OTHER -> v = ScaledNaN
Column(ds, c) == [i \in DOMAIN ds.rows |-> ds.rows[i][c]]
HasCols(ds, vars) == Range(vars) \subseteq Range(ds.cols)
\* df[vars].isnull().sum().sum() > 0
ContainsNa(ds, vars) ==
    \E c \in Range(vars) : \E i \in DOMAIN ds.rows : IsNull(ds, c, ds.rows[i][c])

\* the non-missing cells of a column, in row order
NonNull(ds, c) ==
    LET idx == {i \in DOMAIN ds.rows : ~IsNull(ds, c, ds.rows[i][c])}
        pos(k) == CHOOSE i \in idx : Cardinality({j \in idx : j < i}) = k - 1
    IN [k \in 1..Cardinality(idx) |-> ds.rows[pos(k)][c]]

\* k-th smallest (1-based) of a non-empty sequence of integers
KthSmallest(s, k) ==
    CHOOSE v \in Range(s) :
        /\ Cardinality({j \in DOMAIN s : s[j] < v}) < k
        /\ Cardinality({j \in DOMAIN s : s[j] <= v}) >= k

\* the sum of s[lo..hi], by halves
RECURSIVE SumRange(_, _, _)
SumRange(s, lo, hi) ==
    IF lo > hi THEN 0
    ELSE IF lo = hi THEN s[lo]
    ELSE SumRange(s, lo, (lo + hi) \div 2) + SumRange(s, (lo + hi) \div 2 + 1, hi)
SumSeq(s) == SumRange(s, 1, Len(s))

\* the frame with the cells of the columns in vars replaced: cell(i, c) is
\* the new cell of row i, column c (a function of the row index and column)
MapCols(ds, vars, cell) ==
    [ds EXCEPT !.rows = Eager([i \in DOMAIN ds.rows |->
        Eager([c \in DOMAIN ds.rows[i] |->
            IF c \in Range(vars) THEN cell[i, c] ELSE ds.rows[i][c]])])]

\* ------------------------------------------------------- transformer results

\* a call's outcome: a value, or the exception it raised
Ok(v) == [ok |-> TRUE, err |-> "", val |-> v]
Raise(e) == [ok |-> FALSE, err |-> e, val |-> <<>>]

\* a stage (or the estimator) before any fit
Unfit == [fitted |-> FALSE, n_features |-> 0, params |-> <<>>]
Fitted(ds, p) ==
    [fitted |-> TRUE, n_features |-> Len(ds.cols), params |-> Eager(p)]

\* variant: the missing column is reported as the exception of the
\* missing-entry check
CheckFitInputAsValueError(cfg, ds, naCheck) ==
    IF ~HasCols(ds, cfg.variables) THEN "ValueError"
    ELSE IF naCheck /\ ContainsNa(ds, cfg.variables) THEN "ValueError"
    ELSE ""

\* what every feature_engine fit checks first: the declared columns exist
\* (df[variables] raises KeyError), and for encoders and the discretiser
\* that they hold no missing entry (ValueError)
CheckFitInput(cfg, ds, naCheck) ==
    IF ~HasCols(ds, cfg.variables) THEN "KeyError"
    ELSE IF naCheck /\ ContainsNa(ds, cfg.variables) THEN "ValueError"
    ELSE ""

\* what every feature_engine transform checks first: check_is_fitted, the
\* declared columns, the column count of the training frame, missing entries
CheckTransformInput(cfg, st, ds, naCheck) ==
    IF ~st.fitted THEN "NotFittedError"
    ELSE IF ~HasCols(ds, cfg.variables) THEN "KeyError"
    ELSE IF Len(ds.cols) # st.n_features THEN "ValueError"
    ELSE IF naCheck /\ ContainsNa(ds, cfg.variables) THEN "ValueError"
    ELSE ""

\* ------------------------------------------------------ AddMissingIndicator

\* fit (missing_only=True, the default): variables_ are the declared
\* variables that show a missing entry in the training frame
MissingIndicatorFit(cfg, old, ds, y) ==
    LET e == CheckFitInput(cfg, ds, FALSE) IN
    IF e # "" THEN Raise(e)
    ELSE Ok(Fitted(ds, [variables_ |->
            SelectSeq(cfg.variables, LAMBDA c : ContainsNa(ds, <<c>>))]))

\* variant: the indicator column is inserted in front of the frame
AddIndicatorFirst(ds, c) ==
    LET na == c \o "_na" IN
    [cols |-> <<na>> \o ds.cols,
     repr |-> Eager([k \in Range(ds.cols) \cup {na} |->
                  IF k = na THEN "int" ELSE ds.repr[k]]),
     rows |-> Eager([i \in DOMAIN ds.rows |->
                  Eager([k \in Range(ds.cols) \cup {na} |->
                      IF k = na
                      THEN (IF IsNull(ds, c, ds.rows[i][c]) THEN Num(1) ELSE Num(0))
                      ELSE ds.rows[i][k]])])]

\* variant: the indicator is 1 where the cell is present
AddIndicatorOfPresent(ds, c) ==
    LET na == c \o "_na" IN
    [cols |-> Append(ds.cols, na),
     repr |-> Eager([k \in Range(ds.cols) \cup {na} |->
                  IF k = na THEN "int" ELSE ds.repr[k]]),
     rows |-> Eager([i \in DOMAIN ds.rows |->
                  Eager([k \in Range(ds.cols) \cup {na} |->
                      IF k = na
                      THEN (IF IsNull(ds, c, ds.rows[i][c]) THEN Num(0) ELSE Num(1))
                      ELSE ds.rows[i][k]])])]

\* transform: X[c + "_na"] = np.where(X[c].isnull(), 1, 0), appended last
AddIndicator(ds, c) ==
    LET na == c \o "_na" IN
    [cols |-> Append(ds.cols, na),
     repr |-> Eager([k \in Range(ds.cols) \cup {na} |->
                  IF k = na THEN "int" ELSE ds.repr[k]]),
     rows |-> Eager([i \in DOMAIN ds.rows |->
                  Eager([k \in Range(ds.cols) \cup {na} |->
                      IF k = na
                      THEN (IF IsNull(ds, c, ds.rows[i][c]) THEN Num(1) ELSE Num(0))
                      ELSE ds.rows[i][k]])])]

\* variant: the indicators are appended in the reverse of the declared order
RECURSIVE AddIndicatorsReversed(_, _)
AddIndicatorsReversed(ds, vars) ==
    IF vars = <<>> THEN ds
    ELSE AddIndicator(AddIndicatorsReversed(ds, Tail(vars)), Head(vars))

RECURSIVE AddIndicators(_, _)
AddIndicators(ds, vars) ==
    IF vars = <<>> THEN ds
    ELSE AddIndicators(AddIndicator(ds, Head(vars)), Tail(vars))

MissingIndicatorTransform(cfg, st, ds) ==
    LET e == CheckTransformInput(cfg, st, ds, FALSE) IN
    IF e # "" THEN Raise(e)
    ELSE Ok(AddIndicators(ds, st.params.variables_))

\* ------------------------------------------------------------- the imputers

\* pandas Series.median(): the middle of the sorted non-missing values, the
\* mean of the two middle ones when their count is even, NaN when there is none
Median(s) ==
    LET m == Len(s) IN
    IF m = 0 THEN NaN
    ELSE IF m % 2 = 1 THEN KthSmallest(s, (m + 1) \div 2)
    ELSE (KthSmallest(s, m \div 2) + KthSmallest(s, m \div 2 + 1)) \div 2

\* MeanMedianImputer(imputation_method='median'): imputer_dict_ = medians
MedianImputerFit(cfg, old, ds, y) ==
    LET e == CheckFitInput(cfg, ds, FALSE) IN
    IF e # "" THEN Raise(e)
    ELSE Ok(Fitted(ds, [c \in Range(cfg.variables) |-> Median(NonNull(ds, c))]))

\* CategoricalImputer / ArbitraryNumberImputer: imputer_dict_ = the constant
ConstantImputerFit(cfg, old, ds, y) ==
    LET e == CheckFitInput(cfg, ds, FALSE) IN
    IF e # "" THEN Raise(e)
    ELSE Ok(Fitted(ds, [c \in Range(cfg.variables) |-> cfg.fill_value]))

\* variant: a missing cell is filled with the median of the frame being
\* transformed
ImputerTransformOwnMedian(cfg, st, ds) ==
    LET e == CheckTransformInput(cfg, st, ds, FALSE) IN
    IF e # "" THEN Raise(e)
    ELSE Ok(MapCols(ds, cfg.variables,
                    [i \in DOMAIN ds.rows, c \in Range(cfg.variables) |->
                        IF IsNull(ds, c, ds.rows[i][c])
                        THEN (IF cfg.kind = "MeanMedianImputer"
                              THEN Median(NonNull(ds, c)) ELSE st.params[c])
                        ELSE ds.rows[i][c]]))

\* transform of the three imputers: fillna(imputer_dict_[c]) per variable
ImputerTransform(cfg, st, ds) ==
    LET e == CheckTransformInput(cfg, st, ds, FALSE) IN
    IF e # "" THEN Raise(e)
    ELSE Ok(MapCols(ds, cfg.variables,
                    [i \in DOMAIN ds.rows, c \in Range(cfg.variables) |->
                        IF IsNull(ds, c, ds.rows[i][c]) THEN st.params[c]
                        ELSE ds.rows[i][c]]))

\* -------------------------------------------------------------- the encoders

\* len(X[c][X[c] == v]): the rows holding label v
Count(ds, c, v) == Cardinality({i \in DOMAIN ds.rows : ds.rows[i][c] = v})
Unique(ds, c) == {ds.rows[i][c] : i \in DOMAIN ds.rows}

\* variant: a label exactly at the tolerance counts as rare
FrequentStrict(cfg, ds, c) ==
    {v \in Unique(ds, c) :
        Count(ds, c, v) * cfg.tol.den > cfg.tol.num * Len(ds.rows)}

\* value_counts() / len(X) >= tol, with tol the fraction cfg.tol.num/cfg.tol.den
Frequent(cfg, ds, c) ==
    {v \in Unique(ds, c) :
        Count(ds, c, v) * cfg.tol.den >= cfg.tol.num * Len(ds.rows)}

\* variant: a fit that adds to the labels an earlier fit has kept
RareLabelFitKeepsOld(cfg, old, ds, y) ==
    LET e == CheckFitInput(cfg, ds, TRUE) IN
    IF e # "" THEN Raise(e)
    ELSE Ok(Fitted(ds, [c \in Range(cfg.variables) |->
            (IF old.fitted THEN old.params[c] ELSE {}) \cup
            (IF Cardinality(Unique(ds, c)) > cfg.n_categories
             THEN Frequent(cfg, ds, c)
             ELSE Unique(ds, c))]))

\* RareLabelEncoder.fit: a variable with more than n_categories labels keeps
\* its frequent labels; one with n_categories labels or fewer keeps them all
RareLabelFit(cfg, old, ds, y) ==
    LET e == CheckFitInput(cfg, ds, TRUE) IN
    IF e # "" THEN Raise(e)
    ELSE Ok(Fitted(ds, [c \in Range(cfg.variables) |->
            IF Cardinality(Unique(ds, c)) > cfg.n_categories
            THEN Frequent(cfg, ds, c)
            ELSE Unique(ds, c)]))

\* RareLabelEncoder.transform: np.where(X[c].isin(encoder_dict_[c]), X[c], 'Rare')
RareLabelTransform(cfg, st, ds) ==
    LET e == CheckTransformInput(cfg, st, ds, TRUE) IN
    IF e # "" THEN Raise(e)
    ELSE Ok(MapCols(ds, cfg.variables,
                    [i \in DOMAIN ds.rows, c \in Range(cfg.variables) |->
                        IF ds.rows[i][c] \in st.params[c] THEN ds.rows[i][c]
                        ELSE "Rare"]))

\* the labels of the model in the order pandas sorts group keys (ASCII)
LabelOrder ==
    <<"5", "6", "7", "8", "A", "B", "Blmngtn", "C", "CollgCr", "D", "E",
      "Edwards", "F", "G", "Gilbert", "Grvl", "Missing", "NAmes", "OldTown",
      "Pave", "Q", "Rare", "S", "Somerst", "T", "Veenker", "female", "male">>

KeyBefore(ds, c, a, b) ==
    IF ds.repr[c] = "int" THEN a < b
    ELSE Index(LabelOrder, a) < Index(LabelOrder, b)

\* sum and count of the target over the rows holding label v
TargetSum(ds, y, c, v) ==
    SumSeq([k \in 1..Len(ds.rows) |-> IF ds.rows[k][c] = v THEN y[k] ELSE 0])

\* mean target of label a below that of label b (cross-multiplied)
MeanLess(ds, y, c, a, b) ==
    TargetSum(ds, y, c, a) * Count(ds, c, b) < TargetSum(ds, y, c, b) * Count(ds, c, a)
MeanEqual(ds, y, c, a, b) ==
    TargetSum(ds, y, c, a) * Count(ds, c, b) = TargetSum(ds, y, c, b) * Count(ds, c, a)

\* variant: the labels sorted by descending mean target
OrderedRankDescending(ds, y, c, v) ==
    Cardinality({g \in Unique(ds, c) :
        \/ MeanLess(ds, y, c, v, g)
        \/ MeanEqual(ds, y, c, g, v) /\ KeyBefore(ds, c, g, v)})

\* y.groupby(X[c]).mean().sort_values(ascending=True).index, enumerated from 0:
\* a label's rank is the number of labels sorted before it (equal means keep
\* the group-key order)
OrderedRank(ds, y, c, v) ==
    Cardinality({g \in Unique(ds, c) :
        \/ MeanLess(ds, y, c, g, v)
        \/ MeanEqual(ds, y, c, g, v) /\ KeyBefore(ds, c, g, v)})

\* OrdinalEncoder(encoding_method='ordered').fit
OrdinalFit(cfg, old, ds, y) ==
    LET e == CheckFitInput(cfg, ds, TRUE) IN
    IF e # "" THEN Raise(e)
    ELSE Ok(Fitted(ds, [c \in Range(cfg.variables) |->
            Eager([v \in Unique(ds, c) |-> OrderedRank(ds, y, c, v)])]))

\* OrdinalEncoder.transform: X[c] = X[c].map(encoder_dict_[c]); a label that
\* is no key of the mapping becomes NaN (a warning, no exception)
OrdinalTransform(cfg, st, ds) ==
    LET e == CheckTransformInput(cfg, st, ds, TRUE) IN
    IF e # "" THEN Raise(e)
    ELSE LET out == MapCols(ds, cfg.variables,
                    [i \in DOMAIN ds.rows, c \in Range(cfg.variables) |->
                        IF ds.rows[i][c] \in DOMAIN st.params[c]
                        THEN Num(st.params[c][ds.rows[i][c]])
                        ELSE NaN])
         IN Ok([out EXCEPT !.repr = Eager([c \in DOMAIN ds.repr |->
                    IF c \in Range(cfg.variables) THEN "int" ELSE ds.repr[c]])])

\* ------------------------------------------------ EqualFrequencyDiscretiser

\* Series.quantile(k/q), linear interpolation between the two nearest ranks
Quantile(s, k, q) ==
    LET m == Len(s)
        pos == (m - 1) * k
        lo == KthSmallest(s, pos \div q + 1)
        hi == KthSmallest(s, Min2(pos \div q + 2, m))
    IN lo + ((hi - lo) * (pos % q)) \div q

\* a set of integers as an ascending sequence
Sorted(S) ==
    [k \in 1..Cardinality(S) |->
        CHOOSE v \in S : Cardinality({w \in S : w < v}) = k - 1]

\* variant: the outer edges stay the training minimum and maximum
BinEdgesClosed(s, q) ==
    LET u == Sorted({Quantile(s, k, q) : k \in 0..q}) IN
    Eager([k \in 1..Len(u) |-> u[k]])

\* pd.qcut(X[c], q, retbins=True, duplicates='drop'), then bins[0] = -inf
\* and bins[-1] = inf
BinEdges(s, q) ==
    LET u == Sorted({Quantile(s, k, q) : k \in 0..q}) IN
    Eager([k \in 1..Len(u) |->
        IF k = 1 THEN NegInf ELSE IF k = Len(u) THEN PosInf ELSE u[k]])

\* a column whose quantiles all coincide leaves no interval to cut into
DiscretiserFit(cfg, old, ds, y) ==
    LET e == CheckFitInput(cfg, ds, TRUE) IN
    IF e # "" THEN Raise(e)
    ELSE IF \E c \in Range(cfg.variables) :
                Cardinality({Quantile(Column(ds, c), k, cfg.q) : k \in 0..cfg.q}) < 2
    THEN Raise("ValueError")
    ELSE Ok(Fitted(ds, [c \in Range(cfg.variables) |->
                            BinEdges(Column(ds, c), cfg.q)]))

\* pd.cut(X[c], bins, labels=False): the index of the interval (a, b] holding
\* x, missing when x lies in none
BinOf(bins, x) ==
    IF x <= bins[1] \/ x > bins[Len(bins)] THEN NaN
    ELSE Cardinality({k \in 2..(Len(bins) - 1) : bins[k] < x})

DiscretiserTransform(cfg, st, ds) ==
    LET e == CheckTransformInput(cfg, st, ds, TRUE) IN
    IF e # "" THEN Raise(e)
    ELSE Ok(MapCols(ds, cfg.variables,
                    [i \in DOMAIN ds.rows, c \in Range(cfg.variables) |->
                        BinOf(st.params[c], ds.rows[i][c])]))

\* ----------------------------------------------------------- StandardScaler

HasStrings(ds) == \E c \in Range(ds.cols) : ds.repr[c] = "str"

\* StandardScaler.fit: per column n, sum and sum of squares of the
\* non-missing cells (mean_ and var_); a label column cannot be converted
ScalerFit(cfg, old, ds, y) ==
    IF HasStrings(ds) THEN Raise("ValueError")
    ELSE Ok(Fitted(ds, [k \in 1..Len(ds.cols) |->
            LET s == Eager(NonNull(ds, ds.cols[k])) IN
            [n |-> Len(s), sum |-> SumSeq(s),
             sumsq |-> SumSeq([j \in 1..Len(s) |-> s[j] * s[j]])]]))

Scaled(p, x) ==
    IF x = NaN \/ p.n = 0 THEN ScaledNaN
    ELSE <<p.n * x - p.sum, p.n * p.sumsq - p.sum * p.sum, p.n>>

\* StandardScaler.transform: every column, by position; missing stays missing
ScalerTransform(cfg, st, ds) ==
    IF ~st.fitted THEN Raise("NotFittedError")
    ELSE IF HasStrings(ds) \/ Len(ds.cols) # st.n_features THEN Raise("ValueError")
    ELSE Ok([cols |-> ds.cols,
             repr |-> Eager([c \in Range(ds.cols) |-> "scaled"]),
             rows |-> Eager([i \in DOMAIN ds.rows |-> Eager([c \in Range(ds.cols) |->
                         Scaled(st.params[Index(ds.cols, c)], ds.rows[i][c])])])])

\* ------------------------------------------------------ terminal estimators

\* Lasso(random_state=0) and GradientBoostingClassifier(random_state=0) are
\* opaque: what fit learns is a deterministic function of the features and
\* labels it is given (kept as they are), and a prediction is a deterministic
\* function of that and of the row's features (kept as the feature row).
\* Both refuse labels in place of numbers and missing entries.
EstimatorFit(cfg, old, ds, y) ==
    IF HasStrings(ds) \/ ContainsNa(ds, ds.cols) THEN Raise("ValueError")
    ELSE Ok(Fitted(ds, [X |-> ds, y |-> y]))

\* variant: the predictions come out last row first
EstimatorPredictReversed(cfg, st, ds) ==
    IF ~st.fitted THEN Raise("NotFittedError")
    ELSE IF HasStrings(ds) \/ Len(ds.cols) # st.n_features
            \/ ContainsNa(ds, ds.cols) THEN Raise("ValueError")
    ELSE Ok(Eager([i \in DOMAIN ds.rows |->
                Eager([k \in 1..Len(ds.cols) |->
                    ds.rows[Len(ds.rows) + 1 - i][ds.cols[k]]])]))

EstimatorPredict(cfg, st, ds) ==
    IF ~st.fitted THEN Raise("NotFittedError")
    ELSE IF HasStrings(ds) \/ Len(ds.cols) # st.n_features
            \/ ContainsNa(ds, ds.cols) THEN Raise("ValueError")
    ELSE Ok(Eager([i \in DOMAIN ds.rows |->
                Eager([k \in 1..Len(ds.cols) |-> ds.rows[i][ds.cols[k]]])]))

\* ------------------------------------------------------------ the pipelines

\* house prices: the variable lists the notebook derives from the dtypes
\* (a representative of each kind; final_columns keeps the csv's order)
categorical == <<"Street", "Neighborhood">>
discrete == <<"OverallQual">>
numerical == <<"LotFrontage", "LotArea", "MasVnrArea">>
final_columns ==
    <<"LotFrontage", "LotArea", "Street", "Neighborhood", "OverallQual",
      "YearBuilt", "MasVnrArea", "GarageYrBlt">>

\* variant: the numeric imputer placed after the categorical encoders
house_pipe_imputer_late ==
    << [name |-> "missing_ind", kind |-> "AddMissingIndicator",
        variables |-> <<"LotFrontage", "MasVnrArea", "GarageYrBlt">>],
       [name |-> "imputer_cat", kind |-> "CategoricalImputer",
        variables |-> categorical, fill_value |-> "Missing"],
       [name |-> "rare_label_enc", kind |-> "RareLabelEncoder",
        tol |-> [num |-> 5, den |-> 100], n_categories |-> 6,
        variables |-> categorical \o discrete],
       [name |-> "categorical_enc", kind |-> "OrdinalEncoder",
        variables |-> categorical \o discrete],
       [name |-> "imputer_num", kind |-> "MeanMedianImputer",
        variables |-> <<"LotFrontage", "MasVnrArea", "GarageYrBlt">>],
       [name |-> "discretisation", kind |-> "EqualFrequencyDiscretiser",
        q |-> 5, variables |-> numerical],
       [name |-> "encoding", kind |-> "OrdinalEncoder", variables |-> numerical],
       [name |-> "scaler", kind |-> "StandardScaler", variables |-> <<>>],
       [name |-> "lasso", kind |-> "Lasso", variables |-> <<>>] >>

house_pipe ==
    << [name |-> "missing_ind", kind |-> "AddMissingIndicator",
        variables |-> <<"LotFrontage", "MasVnrArea", "GarageYrBlt">>],
       [name |-> "imputer_num", kind |-> "MeanMedianImputer",
        variables |-> <<"LotFrontage", "MasVnrArea", "GarageYrBlt">>],
       [name |-> "imputer_cat", kind |-> "CategoricalImputer",
        variables |-> categorical, fill_value |-> "Missing"],
       [name |-> "rare_label_enc", kind |-> "RareLabelEncoder",
        tol |-> [num |-> 5, den |-> 100], n_categories |-> 6,
        variables |-> categorical \o discrete],
       [name |-> "categorical_enc", kind |-> "OrdinalEncoder",
        variables |-> categorical \o discrete],
       [name |-> "discretisation", kind |-> "EqualFrequencyDiscretiser",
        q |-> 5, variables |-> numerical],
       [name |-> "encoding", kind |-> "OrdinalEncoder", variables |-> numerical],
       [name |-> "scaler", kind |-> "StandardScaler", variables |-> <<>>],
       [name |-> "lasso", kind |-> "Lasso", variables |-> <<>>] >>

\* titanic: the predictors left after the cabin extraction and the drops
titanic_columns ==
    <<"pclass", "sex", "age", "sibsp", "parch", "fare", "embarked",
      "cabin_num", "cabin_cat">>

titanic_pipe ==
    << [name |-> "imputer_num", kind |-> "ArbitraryNumberImputer",
        variables |-> <<"age", "fare", "cabin_num">>, fill_value |-> Num(-1)],
       [name |-> "imputer_cat", kind |-> "CategoricalImputer",
        variables |-> <<"embarked", "cabin_cat">>, fill_value |-> "Missing"],
       [name |-> "encoder_rare_label", kind |-> "RareLabelEncoder",
        tol |-> [num |-> 1, den |-> 100], n_categories |-> 6,
        variables |-> <<"cabin_cat">>],
       [name |-> "categorical_encoder", kind |-> "OrdinalEncoder",
        variables |-> <<"cabin_cat", "sex", "embarked">>],
       [name |-> "gbm", kind |-> "GradientBoostingClassifier",
        variables |-> <<>>] >>

Pipeline(p) == IF p = "house_pipe" THEN house_pipe ELSE titanic_pipe

IsEstimator(cfg) == cfg.kind \in {"Lasso", "GradientBoostingClassifier"}

\* stage.fit(X, y): the state the stage holds afterwards, or the exception
StageFit(cfg, old, ds, y) ==
    CASE cfg.kind = "AddMissingIndicator" -> MissingIndicatorFit(cfg, old, ds, y)
      [] cfg.kind = "MeanMedianImputer" -> MedianImputerFit(cfg, old, ds, y)
      [] cfg.kind \in {"CategoricalImputer", "ArbitraryNumberImputer"} ->
            ConstantImputerFit(cfg, old, ds, y)
      [] cfg.kind = "RareLabelEncoder" -> RareLabelFit(cfg, old, ds, y)
      [] cfg.kind = "OrdinalEncoder" -> OrdinalFit(cfg, old, ds, y)
      [] cfg.kind = "EqualFrequencyDiscretiser" -> DiscretiserFit(cfg, old, ds, y)
      [] cfg.kind = "StandardScaler" -> ScalerFit(cfg, old, ds, y)
      [] OTHER -> EstimatorFit(cfg, old, ds, y)

\* what stage.transform(X) returns (estimator: what predict returns)
StageOutput(cfg, st, ds) ==
    CASE cfg.kind = "AddMissingIndicator" -> MissingIndicatorTransform(cfg, st, ds)
      [] cfg.kind \in {"MeanMedianImputer", "CategoricalImputer",
                       "ArbitraryNumberImputer"} -> ImputerTransform(cfg, st, ds)
      [] cfg.kind = "RareLabelEncoder" -> RareLabelTransform(cfg, st, ds)
      [] cfg.kind = "OrdinalEncoder" -> OrdinalTransform(cfg, st, ds)
      [] cfg.kind = "EqualFrequencyDiscretiser" -> DiscretiserTransform(cfg, st, ds)
      [] cfg.kind = "StandardScaler" -> ScalerTransform(cfg, st, ds)
      [] OTHER -> EstimatorPredict(cfg, st, ds)

\* variant: a transform that re-learns its parameter from the frame it is given
\* (fit_transform called where transform is meant)
StageTransformRefits(cfg, st, ds) ==
    [out |-> StageOutput(cfg, st, ds),
     st |-> IF cfg.kind = "MeanMedianImputer" /\ st.fitted
                    /\ HasCols(ds, cfg.variables)
            THEN MedianImputerFit(cfg, st, ds, <<>>).val
            ELSE st]

\* variant: a transform that fits the stage first when it has not been fitted
StageTransformFitsUnfit(cfg, st, ds) ==
    IF ~st.fitted /\ cfg.kind \in {"AddMissingIndicator", "ArbitraryNumberImputer"}
            /\ HasCols(ds, cfg.variables)
    THEN [out |-> StageOutput(cfg, StageFit(cfg, st, ds, <<>>).val, ds),
          st |-> StageFit(cfg, st, ds, <<>>).val]
    ELSE [out |-> StageOutput(cfg, st, ds), st |-> st]

\* a call of stage.transform (or estimator.predict): its outcome and the
\* state the stage holds after the call; no transformer of either pipeline
\* assigns to its fitted attributes in transform
StageTransform(cfg, st, ds) ==
    [out |-> StageOutput(cfg, st, ds), st |-> st]

\* ---------------------------------------------------------------- the data

\* rows of the largest training frame of each notebook
HouseRows == 21
TitanicRows == 101

Restrict(row, cols) == Eager([c \in Range(cols) |-> row[c]])
Without(cols, drop) == SelectSeq(cols, LAMBDA c : c \notin drop)

HouseRepr ==
    [c \in Range(final_columns) |->
        IF c \in Range(categorical \o discrete) THEN "str" ELSE "int"]

\* row n of house frame number v, as it stands after the elapsed-years cells
\* and the astype('O') of the discrete variables
HouseRow(n, v) ==
    [LotFrontage |-> IF (n + v) % 5 = 0 THEN NaN ELSE Num(50 + 10 * ((n + 2 * v) % 6)),
     LotArea |-> Num(80 + 5 * n + v),
     Street |-> IF n = 2 THEN "Grvl" ELSE IF n = 5 /\ v = 0 THEN NaNObj ELSE "Pave",
     Neighborhood |->
        IF n = 1 THEN "Blmngtn"
        ELSE <<"NAmes", "CollgCr", "OldTown", "Edwards", "Somerst", "Gilbert">>[((n + v) % 6) + 1],
     OverallQual |-> <<"5", "6", "7", "8">>[(n % 4) + 1],
     YearBuilt |-> Num((n * 3) % 40),
     MasVnrArea |-> IF n = 3 THEN NaN ELSE Num(100 * ((n + v) % 3)),
     GarageYrBlt |-> IF n = 4 THEN NaN ELSE Num((n * 2) % 25)]

HouseFrame(rows, v, drop) ==
    LET cols == Without(final_columns, drop) IN
    [X |-> [cols |-> cols,
            repr |-> Restrict(HouseRepr, cols),
            rows |-> Eager([n \in 1..rows |-> Restrict(HouseRow(n, v), cols)])],
     y |-> Eager([n \in 1..rows |-> 100 + 10 * ((n + v) % 7) + 5 * (n % 6)])]

\* held-out rows: a neighbourhood never seen in training, the rare one, cells
\* beyond the training range, missing cells
house_test ==
    [X |-> [cols |-> final_columns, repr |-> HouseRepr,
            rows |-> <<
     [LotFrontage |-> NaN, LotArea |-> Num(90), Street |-> "Pave",
      Neighborhood |-> "Veenker", OverallQual |-> "5", YearBuilt |-> Num(5),
      MasVnrArea |-> Num(0), GarageYrBlt |-> NaN],
     [LotFrontage |-> Num(200), LotArea |-> Num(10), Street |-> "Grvl",
      Neighborhood |-> "Blmngtn", OverallQual |-> "6", YearBuilt |-> Num(12),
      MasVnrArea |-> NaN, GarageYrBlt |-> Num(3)],
     [LotFrontage |-> Num(10), LotArea |-> Num(500), Street |-> NaNObj,
      Neighborhood |-> "NAmes", OverallQual |-> "7", YearBuilt |-> Num(30),
      MasVnrArea |-> Num(100), GarageYrBlt |-> Num(20)] >>],
     y |-> <<120, 150, 110>>]

\* held-out rows with gaps where the training frame has none: the lot area
\* of the first house, the overall quality of the second
house_gaps ==
    [X |-> [cols |-> final_columns, repr |-> HouseRepr,
            rows |-> <<
     [LotFrontage |-> Num(60), LotArea |-> NaN, Street |-> "Pave",
      Neighborhood |-> "NAmes", OverallQual |-> "5", YearBuilt |-> Num(5),
      MasVnrArea |-> Num(0), GarageYrBlt |-> Num(5)],
     [LotFrontage |-> NaN, LotArea |-> Num(100), Street |-> "Pave",
      Neighborhood |-> "CollgCr", OverallQual |-> NaNObj, YearBuilt |-> Num(12),
      MasVnrArea |-> Num(100), GarageYrBlt |-> Num(3)] >>],
     y |-> <<120, 150>>]

TitanicRepr ==
    [c \in Range(titanic_columns) |->
        IF c \in {"sex", "embarked", "cabin_cat"} THEN "str" ELSE "int"]

\* data['cabin'] as a string of characters; a missing cabin is the empty one
NoCabin == <<>>
Digits == <<"0", "1", "2", "3", "4", "5", "6", "7", "8", "9">>
IsDigit(ch) == \E d \in 1..Len(Digits) : Digits[d] = ch
DigitValue(ch) == (CHOOSE d \in 1..Len(Digits) : Digits[d] = ch) - 1

\* the number the digits of c from position k on spell, up to the first
\* character that is no digit
RECURSIVE LeadingNumber(_, _, _)
LeadingNumber(c, k, acc) ==
    IF k > Len(c) \/ ~IsDigit(c[k]) THEN acc
    ELSE LeadingNumber(c, k + 1, acc * 10 + DigitValue(c[k]))

\* variant: the last run of digits
CabinNumLastRun(c) ==
    IF \A k \in 1..Len(c) : ~IsDigit(c[k]) THEN NaN
    ELSE LET a == CHOOSE a \in 1..Len(c) :
                    /\ IsDigit(c[a])
                    /\ (a > 1 => ~IsDigit(c[a - 1]))
                    /\ \A k \in (a + 1)..Len(c) :
                            IsDigit(c[k]) => \A j \in a..k : IsDigit(c[j])
         IN Num(LeadingNumber(c, a, 0))

\* data['cabin'].str.extract('(\d+)').astype('float'): the leftmost run of
\* digits, missing if there is none
CabinNum(c) ==
    IF \A k \in 1..Len(c) : ~IsDigit(c[k]) THEN NaN
    ELSE LET a == CHOOSE a \in 1..Len(c) :
                    IsDigit(c[a]) /\ \A k \in 1..(a - 1) : ~IsDigit(c[k])
         IN Num(LeadingNumber(c, a, 0))

\* data['cabin'].str[0]
CabinCat(c) == IF c = NoCabin THEN NaNObj ELSE c[1]

\* the cabin cell: the two derived columns are added, cabin is dropped
ExtractCabin(row) ==
    [c \in (DOMAIN row \ {"cabin"}) \cup {"cabin_num", "cabin_cat"} |->
        IF c = "cabin_num" THEN CabinNum(row["cabin"])
        ELSE IF c = "cabin_cat" THEN CabinCat(row["cabin"])
        ELSE row[c]]

\* k < 100 in decimal
Decimal(k) ==
    IF k < 10 THEN <<Digits[k + 1]>>
    ELSE <<Digits[(k \div 10) + 1], Digits[(k % 10) + 1]>>

\* row n of `data` as read from the csv, in variant v of the sample
TitanicRaw(n, v) ==
    [pclass |-> Num(1 + (n % 3)),
     sex |-> IF n % 2 = 0 THEN "male" ELSE "female",
     age |-> IF n % 4 = 0 THEN NaN ELSE Num(20 + ((n + v) % 50)),
     sibsp |-> Num(n % 3),
     parch |-> Num(n % 2),
     fare |-> IF n = 7 THEN NaN ELSE Num(10 + ((n * (v + 1)) % 60)),
     embarked |-> IF n = 9 /\ v = 0 THEN NaNObj ELSE <<"S", "C", "Q">>[(n % 3) + 1],
     cabin |->
        IF n = 1 THEN <<"T">>
        ELSE IF n % 2 = 0 THEN NoCabin
        ELSE <<(<<"C", "B", "D", "E", "A", "F">>[(((n - 1) \div 2 + v) % 6) + 1])>>
                \o Decimal(n % 100)]

TitanicRow(n, v) == ExtractCabin(TitanicRaw(n, v))

TitanicFrame(rows, v, drop) ==
    LET cols == Without(titanic_columns, drop) IN
    [X |-> [cols |-> cols,
            repr |-> Restrict(TitanicRepr, cols),
            rows |-> Eager([n \in 1..rows |-> Restrict(TitanicRow(n, v), cols)])],
     y |-> Eager([n \in 1..rows |-> IF (n * n + v) % 3 = 0 THEN 1 ELSE 0])]

\* held-out rows of `data`
titanic_test_raw ==
    << [pclass |-> Num(1), sex |-> "female", age |-> Num(38), sibsp |-> Num(1),
        parch |-> Num(0), fare |-> Num(71), embarked |-> "C",
        cabin |-> <<"C", "8", "5">>],
       [pclass |-> Num(3), sex |-> "male", age |-> NaN, sibsp |-> Num(0),
        parch |-> Num(0), fare |-> Num(8), embarked |-> NaNObj,
        cabin |-> NoCabin],
       [pclass |-> Num(2), sex |-> "male", age |-> Num(4), sibsp |-> Num(0),
        parch |-> Num(2), fare |-> NaN, embarked |-> "S",
        cabin |-> <<"G", "6">>],
       [pclass |-> Num(1), sex |-> "male", age |-> Num(45), sibsp |-> Num(0),
        parch |-> Num(0), fare |-> Num(35), embarked |-> "S",
        cabin |-> <<"T">>] >>

titanic_test ==
    [X |-> [cols |-> titanic_columns, repr |-> TitanicRepr,
            rows |-> [i \in 1..Len(titanic_test_raw) |->
                        ExtractCabin(titanic_test_raw[i])]],
     y |-> <<1, 0, 1, 0>>]

\* held-out passengers booked into several cabins, or into one with no number
titanic_cabins_raw ==
    << [pclass |-> Num(1), sex |-> "male", age |-> Num(19), sibsp |-> Num(3),
        parch |-> Num(2), fare |-> Num(263), embarked |-> "S",
        cabin |-> <<"C", "2", "3", " ", "C", "2", "5", " ", "C", "2", "7">>],
       [pclass |-> Num(3), sex |-> "male", age |-> Num(25), sibsp |-> Num(0),
        parch |-> Num(0), fare |-> Num(7), embarked |-> "S",
        cabin |-> <<"F", " ", "G", "7", "3">>],
       [pclass |-> Num(1), sex |-> "female", age |-> Num(50), sibsp |-> Num(0),
        parch |-> Num(0), fare |-> Num(28), embarked |-> "C",
        cabin |-> <<"D">>] >>

\* a held-out passenger whose sex is not recorded
titanic_gaps_raw ==
    << [pclass |-> Num(3), sex |-> NaNObj, age |-> Num(30), sibsp |-> Num(0),
        parch |-> Num(0), fare |-> Num(8), embarked |-> "S",
        cabin |-> NoCabin] >>

titanic_gaps ==
    [X |-> [cols |-> titanic_columns, repr |-> TitanicRepr,
            rows |-> [i \in 1..Len(titanic_gaps_raw) |->
                        ExtractCabin(titanic_gaps_raw[i])]],
     y |-> <<0>>]

titanic_cabins ==
    [X |-> [cols |-> titanic_columns, repr |-> TitanicRepr,
            rows |-> [i \in 1..Len(titanic_cabins_raw) |->
                        ExtractCabin(titanic_cabins_raw[i])]],
     y |-> <<0, 0, 1>>]

\* the rows of `data` a titanic frame was made from
titanic_data(d) ==
    CASE d = "titanic_test" -> titanic_test_raw
      [] d = "titanic_cabins" -> titanic_cabins_raw
      [] d = "titanic_gaps" -> titanic_gaps_raw
      [] d = "titanic_fold" -> [n \in 1..(TitanicRows - 1) |-> TitanicRaw(n, 1)]
      [] OTHER -> [n \in 1..TitanicRows |-> TitanicRaw(n, 0)]

\* the frames a call can be given, by name
Data(d) ==
    CASE d = "house_train" -> HouseFrame(HouseRows, 0, {})
      [] d = "house_fold" -> HouseFrame(HouseRows - 1, 1, {})
      [] d = "house_no_LotArea" -> HouseFrame(HouseRows, 0, {"LotArea"})
      [] d = "house_test" -> house_test
      [] d = "titanic_train" -> TitanicFrame(TitanicRows, 0, {})
      [] d = "titanic_fold" -> TitanicFrame(TitanicRows - 1, 1, {})
      [] d = "titanic_no_embarked" -> TitanicFrame(TitanicRows, 0, {"embarked"})
      [] d = "titanic_cabins" -> titanic_cabins
      [] d = "titanic_gaps" -> titanic_gaps
      [] d = "house_gaps" -> house_gaps
      [] OTHER -> titanic_test

TrainIds(p) ==
    IF p = "house_pipe" THEN {"house_train", "house_fold", "house_no_LotArea"}
    ELSE {"titanic_train", "titanic_fold", "titanic_no_embarked"}
PredictIds(p) ==
    TrainIds(p) \cup (IF p = "house_pipe" THEN {"house_test", "house_gaps"}
                    ELSE {"titanic_test", "titanic_cabins", "titanic_gaps"})

\* Pipeline.fit as a function: the step states a pipeline holding sts ends
\* with after fit(X, y) run from step k on, and whether the fit completed
RECURSIVE RunFit(_, _, _, _, _)
RunFit(P, sts, k, X, y) ==
    CHOOSE res \in
        {IF ~f.ok THEN [ok |-> FALSE, steps |-> sts]
         ELSE IF k = Len(P) THEN [ok |-> TRUE, steps |-> [sts EXCEPT ![k] = f.val]]
         ELSE CHOOSE r \in
            {IF ~t.out.ok THEN [ok |-> FALSE, steps |-> [sts EXCEPT ![k] = t.st]]
             ELSE RunFit(P, [sts EXCEPT ![k] = t.st], k + 1, t.out.val, y)
                : t \in {StageTransform(P[k], f.val, X)}} : TRUE
            : f \in {StageFit(P[k], sts[k], X, y)}} : TRUE

\* a pipeline of the same configuration, newly constructed and fitted on d
FreshFit(p, d) ==
    CHOOSE res \in
        {RunFit(Pipeline(p), [k \in 1..Len(Pipeline(p)) |-> Unfit], 1, D.X, D.y)
            : D \in {Data(d)}} : TRUE

\* Pipeline.predict's loop as a function: what the transforms of steps 1..k,
\* holding the states sts, make of the frame X (or the exception raised)
RECURSIVE TransformUpTo(_, _, _, _)
TransformUpTo(P, sts, k, X) ==
    IF k = 0 THEN Ok(X)
    ELSE CHOOSE r \in
        {IF ~prev.ok THEN prev ELSE StageOutput(P[k], sts[k], prev.val)
            : prev \in {TransformUpTo(P, sts, k - 1, X)}} : TRUE

\* the stage calls of a completed Pipeline.fit: fit and transform of each
\* transformer in the order of the steps list, then fit of the final estimator
FitOrder(P) ==
    [j \in 1..(2 * Len(P) - 1) |->
        IF j % 2 = 1 THEN <<"fit", P[(j + 1) \div 2].name>>
        ELSE <<"transform", P[j \div 2].name>>]

\* ------------------------------------------- the cells before the pipeline

\* rows of the frames the temporal-variable cells are run on
TrainRawRows == 2
TestRawRows == 1

\* the year columns of a row of houseprice.csv as train_test_split leaves
\* them: the year sold, built and remodelled, and the garage's year, which
\* can be missing
RawYearRows ==
    [YrSold : {Num(2005), Num(2008)}, YearBuilt : {Num(2000)},
     YearRemodAdd : {Num(2003)}, GarageYrBlt : {Num(2000), NaN}]
RawYearCols == <<"YearBuilt", "YearRemodAdd", "GarageYrBlt", "YrSold">>
RawFrame(rows) == [cols |-> RawYearCols, rows |-> rows]

\* the list the loop runs over
elapsed_vars == <<"YearBuilt", "YearRemodAdd", "GarageYrBlt">>

\* a - b on cells; missing if either is
Minus(a, b) == IF a = NaN \/ b = NaN THEN NaN ELSE a - b

\* variant: the year variable minus the year sold
elapsed_years_reversed(df, var) ==
    [df EXCEPT !.rows = [i \in DOMAIN df.rows |->
        [df.rows[i] EXCEPT ![var] = Minus(df.rows[i][var], df.rows[i]["YrSold"])]]]

\* what elapsed_years(df, var) leaves in the object df refers to:
\* df[var] = df['YrSold'] - df[var]
elapsed_years(df, var) ==
    [df EXCEPT !.rows = [i \in DOMAIN df.rows |->
        [df.rows[i] EXCEPT ![var] = Minus(df.rows[i]["YrSold"], df.rows[i][var])]]]

\* what X.drop(c, axis=1, inplace=True) leaves in the object X refers to
DropColumn(df, c) ==
    [cols |-> Without(df.cols, {c}),
     rows |-> [i \in DOMAIN df.rows |-> Restrict(df.rows[i], Without(df.cols, {c}))]]

\* the cells are over: the frames are those fit and predict are given
Prepared ==
    [at |-> 2 * Len(elapsed_vars) + 2, heap |-> <<>>, orig |-> <<>>,
     names |-> <<>>, call |-> [fn |-> "none"]]

\* ------------------------------------------------------- the state machine

VARIABLES
    pipe,     \* which Pipeline object this is
    steps,    \* the fitted state of each step, the estimator last
    pc,       \* "idle", or the call in progress: "fit" or "predict"
    idx,      \* the step the call in progress has reached
    Xt,       \* the data as transformed so far by the call in progress
    labels,   \* the y of the fit in progress
    arg,      \* the name of the frame the last call was given
    result,   \* the last call: [op, status, out, was_usable]
    log,      \* the stage calls the last call made, in order
    trained,  \* the frames of the last two completed fits: [last, prev]
    memo,     \* the first prediction returned since the last fit
    nb        \* the notebook's cells that prepare X_train and X_test

vars == <<pipe, steps, pc, idx, Xt, labels, arg, result, log, trained, memo, nb>>

NoMemo == [arg |-> "", out |-> <<>>, between |-> FALSE]
Last == Len(Pipeline(pipe))
Cfg == Pipeline(pipe)[idx]
\* predict would not raise NotFittedError
Usable == \A k \in 1..Last : steps[k].fitted

\* the last call was a fit / a predict, and it returned
FitDone == pc = "idle" /\ result.op = "fit" /\ result.status = "ok"
PredictDone == pc = "idle" /\ result.op = "predict" /\ result.status = "ok"

Init ==
    /\ nb = Prepared
    /\ pipe \in {"house_pipe", "titanic_pipe"}
    /\ steps = [k \in 1..Len(Pipeline(pipe)) |-> Unfit]
    /\ pc = "idle"
    /\ idx = 0
    /\ Xt = <<>>
    /\ labels = <<>>
    /\ arg = ""
    /\ result = [op |-> "none", status |-> "", out |-> <<>>, was_usable |-> FALSE]
    /\ log = <<>>
    /\ trained = [last |-> "", prev |-> ""]
    /\ memo = NoMemo

\* the call in progress ends with exception e
Abort(e) ==
    /\ pc' = "idle"
    /\ result' = [result EXCEPT !.status = e]
    /\ Xt' = <<>>
    /\ UNCHANGED <<idx, labels>>

\* pipe.fit(X_train, y_train) is called
Fit(d) ==
    /\ pc = "idle"
    /\ pc' = "fit"
    /\ idx' = 1
    /\ Xt' = Data(d).X
    /\ labels' = Data(d).y
    /\ arg' = d
    /\ result' = [op |-> "fit", status |-> "running", out |-> <<>>,
                  was_usable |-> Usable]
    /\ log' = <<>>
    /\ trained' = [last |-> "",
                   prev |-> IF trained.last # "" THEN trained.last ELSE trained.prev]
    /\ memo' = NoMemo
    /\ UNCHANGED <<pipe, steps, nb>>

\* variant: a fit loop that calls fit where fit_transform is meant, so that
\* the next step is given the frame this step was given
FitTransformOneNoThread ==
    /\ pc = "fit"
    /\ idx < Last
    /\ LET f == StageFit(Cfg, steps[idx], Xt, labels) IN
       IF ~f.ok
       THEN /\ Abort(f.err)
            /\ log' = Append(log, <<"fit", Cfg.name>>)
            /\ UNCHANGED steps
       ELSE /\ steps' = [steps EXCEPT ![idx] = f.val]
            /\ log' = log \o << <<"fit", Cfg.name>>, <<"transform", Cfg.name>> >>
            /\ idx' = idx + 1
            /\ UNCHANGED <<Xt, pc, result, labels>>
    /\ UNCHANGED <<pipe, arg, trained, memo, nb>>

\* Pipeline._fit, one turn of its loop: fit_transform of step idx on the
\* data the previous steps produced
FitTransformOne ==
    /\ pc = "fit"
    /\ idx < Last
    /\ LET f == StageFit(Cfg, steps[idx], Xt, labels) IN
       IF ~f.ok
       THEN /\ Abort(f.err)
            /\ log' = Append(log, <<"fit", Cfg.name>>)
            /\ UNCHANGED steps
       ELSE LET t == StageTransform(Cfg, f.val, Xt) IN
            /\ steps' = [steps EXCEPT ![idx] = t.st]
            /\ log' = log \o << <<"fit", Cfg.name>>, <<"transform", Cfg.name>> >>
            /\ IF ~t.out.ok
               THEN Abort(t.out.err)
               ELSE /\ Xt' = t.out.val
                    /\ idx' = idx + 1
                    /\ UNCHANGED <<pc, result, labels>>
    /\ UNCHANGED <<pipe, arg, trained, memo, nb>>

\* Pipeline.fit, after the loop: the final estimator is fitted
FitFinal ==
    /\ pc = "fit"
    /\ idx = Last
    /\ log' = Append(log, <<"fit", Cfg.name>>)
    /\ LET f == StageFit(Cfg, steps[idx], Xt, labels) IN
       IF ~f.ok
       THEN Abort(f.err) /\ UNCHANGED <<steps, trained>>
       ELSE /\ steps' = [steps EXCEPT ![idx] = f.val]
            /\ pc' = "idle"
            /\ result' = [result EXCEPT !.status = "ok"]
            /\ trained' = [trained EXCEPT !.last = arg]
            /\ Xt' = <<>>
            /\ UNCHANGED <<idx, labels>>
    /\ UNCHANGED <<pipe, arg, memo, nb>>

\* pipe.predict(X) / pipe.predict_proba(X) is called
Predict(d) ==
    /\ pc = "idle"
    /\ pc' = "predict"
    /\ idx' = 1
    /\ Xt' = Data(d).X
    /\ arg' = d
    /\ result' = [op |-> "predict", status |-> "running", out |-> <<>>,
                  was_usable |-> Usable]
    /\ log' = <<>>
    /\ UNCHANGED <<pipe, steps, labels, trained, memo, nb>>

\* Pipeline.predict, one turn of its loop: transform of step idx
PredictTransform ==
    /\ pc = "predict"
    /\ idx < Last
    /\ log' = Append(log, <<"transform", Cfg.name>>)
    /\ LET t == StageTransform(Cfg, steps[idx], Xt) IN
       /\ steps' = [steps EXCEPT ![idx] = t.st]
       /\ IF ~t.out.ok
          THEN Abort(t.out.err)
          ELSE /\ Xt' = t.out.val
               /\ idx' = idx + 1
               /\ UNCHANGED <<pc, result, labels>>
    /\ UNCHANGED <<pipe, arg, trained, memo, nb>>

\* Pipeline.predict, after the loop: the final estimator predicts
PredictFinal ==
    /\ pc = "predict"
    /\ idx = Last
    /\ log' = Append(log, <<"predict", Cfg.name>>)
    /\ LET t == StageTransform(Cfg, steps[idx], Xt) IN
       /\ steps' = [steps EXCEPT ![idx] = t.st]
       /\ IF ~t.out.ok
          THEN Abort(t.out.err) /\ UNCHANGED memo
          ELSE /\ pc' = "idle"
               /\ result' = [result EXCEPT !.status = "ok", !.out = t.out.val]
               /\ memo' = IF memo.arg = ""
                          THEN [arg |-> arg, out |-> t.out.val, between |-> FALSE]
                          ELSE IF memo.arg # arg THEN [memo EXCEPT !.between = TRUE]
                          ELSE memo
               /\ Xt' = <<>>
               /\ UNCHANGED <<idx, labels>>
    /\ UNCHANGED <<pipe, arg, trained, nb>>

\* the notebook after train_test_split (house prices): X_train and X_test
\* name two frame objects; nb.at counts the statements run since
NbInit ==
    /\ pipe = "house_pipe"
    /\ steps = [k \in 1..Len(Pipeline(pipe)) |-> Unfit]
    /\ pc = "idle"
    /\ idx = 0
    /\ Xt = <<>>
    /\ labels = <<>>
    /\ arg = ""
    /\ result = [op |-> "none", status |-> "", out |-> <<>>, was_usable |-> FALSE]
    /\ log = <<>>
    /\ trained = [last |-> "", prev |-> ""]
    /\ memo = NoMemo
    /\ \E tr \in [1..TrainRawRows -> RawYearRows], te \in [1..TestRawRows -> RawYearRows] :
        LET h == [o \in {"df1", "df2"} |->
                    IF o = "df1" THEN RawFrame(tr) ELSE RawFrame(te)]
        IN nb = [at |-> 0, heap |-> h, orig |-> h,
                 names |-> [X_train |-> "df1", X_test |-> "df2"],
                 call |-> [fn |-> "none"]]

\* the name the statement at position nb.at works on: the loop body and the
\* drop cell take X_train first, X_test second
NbName == IF nb.at % 2 = 0 THEN "X_train" ELSE "X_test"

\* one statement of the loop: X = elapsed_years(X, var).  The function
\* assigns into the object it is given and returns that object
ElapsedYearsCall ==
    /\ nb.at < 2 * Len(elapsed_vars)
    /\ LET var == elapsed_vars[nb.at \div 2 + 1]
           obj == nb.names[NbName]
       IN nb' = [nb EXCEPT
                    !.at = nb.at + 1,
                    !.heap[obj] = elapsed_years(nb.heap[obj], var),
                    !.names[NbName] = obj,
                    !.call = [fn |-> "elapsed_years", var |-> var, arg |-> obj,
                              ret |-> obj, before |-> nb.heap[obj]]]
    /\ UNCHANGED <<pipe, steps, pc, idx, Xt, labels, arg, result, log, trained, memo>>

\* one statement of the next cell: X.drop('YrSold', axis=1, inplace=True)
DropYrSold ==
    /\ nb.at >= 2 * Len(elapsed_vars)
    /\ nb.at < 2 * Len(elapsed_vars) + 2
    /\ LET obj == nb.names[NbName]
       IN nb' = [nb EXCEPT
                    !.at = nb.at + 1,
                    !.heap[obj] = DropColumn(nb.heap[obj], "YrSold"),
                    !.call = [fn |-> "drop", var |-> "YrSold", arg |-> obj,
                              ret |-> obj, before |-> nb.heap[obj]]]
    /\ UNCHANGED <<pipe, steps, pc, idx, Xt, labels, arg, result, log, trained, memo>>

NbNext == ElapsedYearsCall \/ DropYrSold

NotebookSpec == NbInit /\ [][NbNext]_vars

Next ==
    \/ \E d \in TrainIds(pipe) : Fit(d)
    \/ FitTransformOne
    \/ FitFinal
    \/ \E d \in PredictIds(pipe) : Predict(d)
    \/ PredictTransform
    \/ PredictFinal

Spec == Init /\ [][Next]_vars

\* ================================================================ properties

\* ------------------------------------------------------------------------ C1
\* C1: no step of a predict call changes the fitted state of any stage or of
\* the estimator, and a predict call that returns for the frame a predict
\* call has already returned for since the last fit returns the same
\* predictions, whatever was predicted in between.
C1_PredictKeepsState ==
    [][ /\ (pc = "predict" \/ pc' = "predict") => steps' = steps
        /\ (PredictDone /\ arg = memo.arg)' => result'.out = memo'.out ]_vars

\* the frame first predicted is predicted again after another frame was
C1_Witness ==
    PredictDone /\ arg = memo.arg /\ memo.between /\ arg = "house_test"

\* ------------------------------------------------------------------------ C2
\* C2: while a fit call runs, the stage calls made so far are the fit and
\* the transform of stages 1..idx-1 in the declared order; each of those
\* stages holds the state its fit learns from the training frame as
\* transformed by the stages before it; the frame that reaches stage idx is
\* the training frame transformed by stages 1..idx-1.  When the call has
\* completed, the estimator's fit is the last stage call, made once, on the
\* output of the last transformer.
C2_FitInDeclaredOrder ==
    LET P == Pipeline(pipe)
        upto(k) == TransformUpTo(P, steps, k, Data(arg).X)
    IN /\ pc = "fit" =>
            /\ log = SubSeq(FitOrder(P), 1, 2 * (idx - 1))
            /\ \A k \in 1..(idx - 1) :
                /\ upto(k - 1).ok
                /\ steps[k] = StageFit(P[k], Unfit, upto(k - 1).val, labels).val
            /\ Xt = upto(idx - 1).val
       /\ FitDone =>
            /\ log = FitOrder(P)
            /\ steps[Last] =
                 StageFit(P[Last], Unfit, upto(Last - 1).val, Data(arg).y).val

\* the fit loop of the nine-step pipeline stands before its last transformer
C2_Witness ==
    pc = "fit" /\ pipe = "house_pipe" /\ idx = Last - 1 /\ arg = "house_fold"

\* ------------------------------------------------------------------------ C3
\* C3: a stage goes from unfit to fit only in the step of a fit call that
\* fits it, and never back; a stage whose transform has produced output in
\* the call in progress is fit; a predict call makes no fit call on any
\* stage, returns predictions only when every stage is fit, and on a
\* pipeline with an unfit stage ends with an exception and no output.
C3_FitBeforeUse ==
    [][ /\ \A k \in 1..Last :
            /\ (steps'[k].fitted /\ ~steps[k].fitted) => (pc = "fit" /\ k = idx)
            /\ steps[k].fitted => steps'[k].fitted
        /\ (pc' \in {"fit", "predict"}) => \A k \in 1..(idx' - 1) : steps'[k].fitted
        /\ (result'.op = "predict") =>
            /\ \A j \in DOMAIN log' : log'[j][1] # "fit"
            /\ (result'.status = "ok") => \A k \in 1..Last : steps'[k].fitted
            /\ (pc' = "idle" /\ ~result'.was_usable) =>
                    (result'.status # "ok" /\ result'.out = <<>>)
      ]_vars

\* predict was called on a pipeline whose fit had stopped part-way
C3_Witness ==
    /\ pc = "idle" /\ result.op = "predict" /\ result.status = "NotFittedError"
    /\ steps[1].fitted /\ ~steps[Last].fitted

\* ------------------------------------------------------------------------ C4
\* C4: when a fit call has completed, whatever the pipeline held before, the
\* state of every stage and of the estimator is the state a newly built
\* pipeline of the same configuration holds after fit on the same frame, and
\* every prediction returned afterwards is the one that pipeline returns.
C4_RefitEqualsFresh ==
    LET P == Pipeline(pipe) IN
    /\ FitDone => steps = FreshFit(pipe, arg).steps
    /\ (PredictDone /\ trained.last # "") =>
        \A fr \in {FreshFit(pipe, trained.last).steps} :
        \A up \in {TransformUpTo(P, fr, Last - 1, Data(arg).X)} :
            up.ok /\ result.out = StageOutput(P[Last], fr[Last], up.val).val

\* a second fit, on another frame than the first, has completed
C4_Witness ==
    /\ FitDone /\ trained.last = arg
    /\ trained.prev \notin {"", trained.last}

\* ------------------------------------------------------------------------ C5
\* C5: when the frame that reaches a stage in a fit call lacks a column the
\* stage declares, that step ends the call with KeyError (the exception the
\* column lookup raises); the stage is tried once, nothing is fitted by the
\* step, the estimator's fit is not called in this call, no fit counts as
\* completed, and a pipeline that predict could not use before the call
\* cannot be used after it.
C5_MissingColumnAbortsFit ==
    [][ (pc = "fit" /\ ~HasCols(Xt, Cfg.variables)) =>
            /\ pc' = "idle"
            /\ result'.op = "fit" /\ result'.status = "KeyError"
            /\ steps' = steps
            /\ log' = Append(log, <<"fit", Cfg.name>>)
            /\ \A j \in DOMAIN log' : log'[j] # <<"fit", Pipeline(pipe)[Last].name>>
            /\ trained'.last = ""
            /\ Usable' => result'.was_usable
      ]_vars

\* the fit of the nine-step pipeline has stopped at the discretiser, whose
\* LotArea is not in the frame; the estimator has never been fitted
C5_Witness ==
    /\ pc = "idle" /\ result.op = "fit" /\ result.status = "KeyError"
    /\ arg = "house_no_LotArea" /\ Pipeline(pipe)[idx].name = "discretisation"
    /\ ~steps[Last].fitted

\* ------------------------------------------------------------------------ C6
\* C6: on a pipeline whose fit has completed, a predict call on a frame that
\* has every column never fails, whatever categories the frame holds; the
\* rare-label encoder gives a category its training frame did not hold a
\* label other than "Rare"; the ordinal encoder's output is never missing,
\* and for a label that is no fitted category it is a rank that no fitted
\* category has.
C6_UnseenCategoryNeverFails ==
    [][ LET P == Pipeline(pipe)
            ran == pc = "predict" /\ pc' = "predict" /\ trained.last # ""
            vs == Range(Cfg.variables)
        IN
        /\ (pc' = "idle" /\ result'.op = "predict" /\ trained.last # ""
                /\ HasCols(Data(arg').X, Data(trained.last).X.cols))
            => result'.status = "ok"
        /\ (ran /\ Cfg.kind = "RareLabelEncoder") =>
            \A seen \in {TransformUpTo(P, steps, idx - 1, Data(trained.last).X).val} :
            \A c \in vs : \A i \in DOMAIN Xt.rows :
                Xt.rows[i][c] \notin Unique(seen, c) => Xt'.rows[i][c] # "Rare"
        /\ (ran /\ Cfg.kind = "OrdinalEncoder") =>
            \A c \in vs : \A i \in DOMAIN Xt.rows :
                /\ Xt'.rows[i][c] # NaN
                /\ Xt.rows[i][c] \notin DOMAIN steps[idx].params[c] =>
                    \A v \in DOMAIN steps[idx].params[c] :
                        Xt'.rows[i][c] # Num(steps[idx].params[c][v])
      ]_vars

\* ------------------------------------------------------------------------ C7
\* C7: every transform of every stage, in fit and in predict, keeps the
\* row count, keeps every incoming column at its position, appends only
\* indicator columns of columns in its scope, and leaves every column
\* outside its scope (the scaler's scope is every column) with the cells it
\* had; what a stage's fit learns is what it learns from the columns in its
\* scope alone.
C7_ColumnScoping ==
    [][ (pc \in {"fit", "predict"} /\ idx < Last /\ pc' = pc) =>
        LET scope == IF Cfg.kind = "StandardScaler" THEN Range(Xt.cols)
                     ELSE Range(Cfg.variables)
            own == [cols |-> SelectSeq(Xt.cols, LAMBDA c : c \in scope),
                    repr |-> [c \in scope |-> Xt.repr[c]],
                    rows |-> [i \in DOMAIN Xt.rows |->
                                [c \in scope |-> Xt.rows[i][c]]]]
        IN
            /\ Len(Xt'.rows) = Len(Xt.rows)
            /\ Len(Xt'.cols) >= Len(Xt.cols)
            /\ SubSeq(Xt'.cols, 1, Len(Xt.cols)) = Xt.cols
            /\ \A k \in (Len(Xt.cols) + 1)..Len(Xt'.cols) :
                    \E c \in scope : Xt'.cols[k] = c \o "_na"
            /\ \A c \in Range(Xt.cols) \ scope :
                    /\ Xt'.repr[c] = Xt.repr[c]
                    /\ \A i \in DOMAIN Xt.rows : Xt'.rows[i][c] = Xt.rows[i][c]
            /\ pc = "fit" =>
                    steps'[idx].params = StageFit(Cfg, Unfit, own, labels).val.params
      ]_vars

\* a predict call has passed the indicator stage, which appended columns, and
\* the median imputer, whose scope is three of the eleven columns
C7_Witness ==
    /\ pc = "predict" /\ pipe = "house_pipe" /\ idx = 3 /\ arg = "house_test"
    /\ Len(Xt.cols) = Len(final_columns) + 3
    /\ Xt.rows[1]["LotFrontage"] # NaN /\ Xt.rows[3]["Street"] = NaNObj

\* ------------------------------------------------------------------------ C8
\* C8: in the steps list of either pipeline every imputer stands before
\* every encoder, every encoder of label columns before the discretiser, the
\* discretiser before the scaler and the estimator last; and the stage calls
\* of every fit and every predict are made in the order of that list.
C8_StageOrder ==
    LET P == Pipeline(pipe)
        raw == IF pipe = "house_pipe" THEN HouseRepr ELSE TitanicRepr
        imputer(g) == g.kind \in {"MeanMedianImputer", "CategoricalImputer",
                                  "ArbitraryNumberImputer"}
        encoder(g) == g.kind \in {"RareLabelEncoder", "OrdinalEncoder"}
        labelEncoder(g) ==
            encoder(g) /\ \A c \in Range(g.variables) : raw[c] = "str"
        before(g, h) ==
            \/ imputer(g) /\ encoder(h)
            \/ labelEncoder(g) /\ h.kind = "EqualFrequencyDiscretiser"
            \/ g.kind = "EqualFrequencyDiscretiser" /\ h.kind = "StandardScaler"
            \/ ~IsEstimator(g) /\ IsEstimator(h)
        at(j) == CHOOSE k \in 1..Len(P) : P[k].name = log[j][2]
    IN /\ \A a, b \in 1..Len(P) : before(P[a], P[b]) => a < b
       /\ IsEstimator(P[Len(P)])
       /\ \A j1, j2 \in DOMAIN log :
            /\ j1 < j2 => at(j1) <= at(j2)
            /\ before(P[at(j1)], P[at(j2)]) => j1 < j2

\* a predict call on the nine-step pipeline has run every stage
C8_Witness ==
    PredictDone /\ pipe = "house_pipe" /\ Len(log) = Len(house_pipe)
        /\ arg = "house_train"

C10_OrderedRanks ==
    [][ (pc \in {"fit", "predict"} /\ pc' = pc /\ Cfg.kind = "OrdinalEncoder") =>
        \A c \in Range(Cfg.variables) :
        \A rank \in {steps'[idx].params[c]} :
            /\ pc = "fit" =>
                /\ DOMAIN rank = Unique(Xt, c)
                /\ \A A, B \in Unique(Xt, c) :
                    MeanLess(Xt, labels, c, A, B) => rank[A] <= rank[B]
            /\ \A i \in DOMAIN Xt.rows :
                Xt.rows[i][c] \in DOMAIN rank =>
                    Xt'.rows[i][c] = Num(rank[Xt.rows[i][c]])
      ]_vars

\* the titanic encoder has been fitted: "Rare" is one of cabin_cat's ranked
\* categories, and the two sexes, whose mean targets differ, differ in rank
C10_Witness ==
    /\ pc = "fit" /\ pipe = "titanic_pipe" /\ arg = "titanic_train"
    /\ idx > 1 /\ Pipeline(pipe)[idx - 1].kind = "OrdinalEncoder"
    /\ "Rare" \in DOMAIN steps[idx - 1].params["cabin_cat"]
    /\ MeanLess(Data(arg).X, labels, "sex", "male", "female")
    /\ steps[idx - 1].params["sex"]["male"] < steps[idx - 1].params["sex"]["female"]
    /\ Xt.rows[1]["sex"] = Num(steps[idx - 1].params["sex"]["female"])

\* ----------------------------------------------------------------------- C11
\* C11: the median the median imputer's fit stores for a target column is
\* the median of the non-missing cells of that column in the training frame
\* that reached it; every transform of the imputer, in fit and in predict,
\* leaves no missing cell in a target column, puts exactly the stored median
\* where a cell was missing and leaves every other cell of the column as it
\* was.
C11_MedianImputer ==
    [][ (pc \in {"fit", "predict"} /\ pc' = pc /\ Cfg.kind = "MeanMedianImputer"
            /\ (pc = "predict" => trained.last # "")) =>
        \A train \in {IF pc = "fit" THEN Xt
                      ELSE TransformUpTo(Pipeline(pipe), steps, idx - 1,
                                         Data(trained.last).X).val} :
        /\ Range(Cfg.variables) = {"LotFrontage", "MasVnrArea", "GarageYrBlt"}
        /\ \A c \in Range(Cfg.variables) :
            \A med \in {steps'[idx].params[c]} :
            \A known \in {{train.rows[i][c] : i \in DOMAIN train.rows} \ {NaN}} :
                /\ med # NaN
                /\ \/ med \in known
                   \/ \E a, b \in known :
                        /\ a < b /\ 2 * med = a + b
                        /\ ~\E w \in known : a < w /\ w < b
                /\ 2 * Cardinality({i \in DOMAIN train.rows :
                        train.rows[i][c] # NaN /\ train.rows[i][c] <= med})
                     >= Len(NonNull(train, c))
                /\ 2 * Cardinality({i \in DOMAIN train.rows :
                        train.rows[i][c] # NaN /\ train.rows[i][c] >= med})
                     >= Len(NonNull(train, c))
                /\ \A i \in DOMAIN Xt.rows :
                    /\ Xt'.rows[i][c] # NaN
                    /\ Xt.rows[i][c] = NaN => Xt'.rows[i][c] = med
                    /\ Xt.rows[i][c] # NaN => Xt'.rows[i][c] = Xt.rows[i][c]
      ]_vars

\* held-out rows have passed the imputer fitted on house_train: the missing
\* LotFrontage of the first row is the training median 70, which is not the
\* median of the held-out rows, and the third row's 10 is as it was
C11_Witness ==
    /\ pc = "predict" /\ pipe = "house_pipe" /\ arg = "house_test"
    /\ trained.last = "house_train" /\ idx = 3
    /\ Data(arg).X.rows[1]["LotFrontage"] = NaN
    /\ Xt.rows[1]["LotFrontage"] = Num(70)
    /\ Xt.rows[1]["LotFrontage"] = steps[2].params["LotFrontage"]
    /\ Xt.rows[3]["LotFrontage"] = Num(10)

C13_Original ==
    [][ (pc \in {"fit", "predict"} /\ pc' = pc
            /\ Cfg.kind = "EqualFrequencyDiscretiser") =>
        \A c \in Range(Cfg.variables) :
        \A e \in {steps'[idx].params[c]} :
            /\ pc = "fit" =>
                \A b1, b2 \in 1..(Len(e) - 1) :
                    Cardinality({i \in DOMAIN Xt.rows :
                        e[b1] < Xt.rows[i][c] /\ Xt.rows[i][c] <= e[b1 + 1]})
                    <= 1 + Cardinality({i \in DOMAIN Xt.rows :
                        e[b2] < Xt.rows[i][c] /\ Xt.rows[i][c] <= e[b2 + 1]})
            /\ \A i \in DOMAIN Xt.rows :
                \A out \in {Xt'.rows[i][c]} :
                    /\ out \in 0..(Len(e) - 2)
                    /\ e[out + 1] < Xt.rows[i][c] /\ Xt.rows[i][c] <= e[out + 2]
      ]_vars

\* C13 amended: the edges stored for a column are strictly increasing, open
\* at both ends, at most q + 1, and each inner edge is a j/q quantile of the
\* training column (q = 5); when the training column holds no value twice
\* there are q bins and their row counts differ by at most one, and when
\* it repeats values the quantiles that coincide are merged, leaving fewer
\* or unequal bins.  Every transform gives every cell the bin whose interval
\* holds it: a value at or below the first inner edge, the training minimum
\* and anything smaller included, the first bin, a value above the last
\* inner edge the last bin.
C13_QuantileBins ==
    [][ (pc \in {"fit", "predict"} /\ pc' = pc
            /\ Cfg.kind = "EqualFrequencyDiscretiser") =>
        \A c \in Range(Cfg.variables) :
        \A e \in {steps'[idx].params[c]} :
            /\ Cfg.q = 5
            /\ e[1] = NegInf /\ e[Len(e)] = PosInf
            /\ Len(e) >= 2 /\ Len(e) <= Cfg.q + 1
            /\ \A k \in 1..(Len(e) - 1) : e[k] < e[k + 1]
            /\ pc = "fit" =>
                \A n \in {Len(Xt.rows)} :
                /\ \A k \in 2..(Len(e) - 1) : \E j \in 1..(Cfg.q - 1) :
                    /\ Cardinality({i \in 1..n : Xt.rows[i][c] <= e[k]})
                            >= ((n - 1) * j) \div Cfg.q + 1
                    /\ Cardinality({i \in 1..n : Xt.rows[i][c] < e[k]})
                            <= ((n - 1) * j + Cfg.q - 1) \div Cfg.q
                /\ Cardinality(Unique(Xt, c)) = n =>
                    /\ Len(e) = Cfg.q + 1
                    /\ \A b1, b2 \in 1..Cfg.q :
                        Cardinality({i \in 1..n :
                            e[b1] < Xt.rows[i][c] /\ Xt.rows[i][c] <= e[b1 + 1]})
                        <= 1 + Cardinality({i \in 1..n :
                            e[b2] < Xt.rows[i][c] /\ Xt.rows[i][c] <= e[b2 + 1]})
            /\ \A i \in DOMAIN Xt.rows :
                \A out \in {Xt'.rows[i][c]} :
                    /\ out \in 0..(Len(e) - 2)
                    /\ e[out + 1] < Xt.rows[i][c] /\ Xt.rows[i][c] <= e[out + 2]
                    /\ (Len(e) > 2 /\ Xt.rows[i][c] <= e[2]) => out = 0
                    /\ (Len(e) > 2 /\ Xt.rows[i][c] > e[Len(e) - 1]) =>
                            out = Len(e) - 2
      ]_vars

\* held-out rows have passed the discretiser fitted on house_train: LotArea,
\* which repeats no value in training, has five bins, and the cells below
\* and above every training value are in the first and the last of them;
\* MasVnrArea, which repeats three values, has fewer bins
C13_Witness ==
    /\ pc = "predict" /\ pipe = "house_pipe" /\ arg = "house_test"
    /\ trained.last = "house_train"
    /\ idx > 1 /\ Pipeline(pipe)[idx - 1].kind = "EqualFrequencyDiscretiser"
    /\ Len(steps[idx - 1].params["LotArea"]) = 6
    /\ Len(steps[idx - 1].params["MasVnrArea"]) < 6
    /\ \A i \in 1..HouseRows : Data(arg).X.rows[2]["LotArea"]
                                    < Data(trained.last).X.rows[i]["LotArea"]
    /\ Xt.rows[2]["LotArea"] = 0
    /\ \A i \in 1..HouseRows : Data(arg).X.rows[3]["LotArea"]
                                    > Data(trained.last).X.rows[i]["LotArea"]
    /\ Xt.rows[3]["LotArea"] = 4

\* ------------------------------------------------------------ C14

\* how many of elapsed_vars the loop has rewritten in the frame a name
\* refers to, after nb.at statements
NbRewritten(name) ==
    LET passes == IF name = "X_train" THEN (nb.at + 1) \div 2 ELSE nb.at \div 2
    IN IF passes > Len(elapsed_vars) THEN Len(elapsed_vars) ELSE passes

\* whether the drop cell has removed YrSold from the frame a name refers to
NbDropped(name) ==
    nb.at > 2 * Len(elapsed_vars) + (IF name = "X_train" THEN 0 ELSE 1)

\* C14: in X_train and in X_test, every variable the loop has reached holds
\* the original YrSold minus the original value of that variable (missing
\* where either is missing), the ones it has not reached hold their original
\* value, YrSold keeps its original value as long as it is there, and it is
\* removed only by the cell after the loop, at whose end both frames hold
\* the three elapsed values and no YrSold.
C14_ElapsedYears ==
    nb.at <= 2 * Len(elapsed_vars) + 2 /\ nb.heap # <<>> =>
        \A name \in {"X_train", "X_test"} :
            LET df == nb.heap[nb.names[name]]
                orig == nb.orig[nb.names[name]]
            IN /\ DOMAIN df.rows = DOMAIN orig.rows
               /\ \A k \in 1..Len(elapsed_vars) :
                    /\ \E j \in 1..Len(df.cols) : df.cols[j] = elapsed_vars[k]
                    /\ \A i \in DOMAIN df.rows :
                        LET old == orig.rows[i][elapsed_vars[k]]
                            sold == orig.rows[i]["YrSold"]
                            gap == IF old = NaN \/ sold = NaN THEN NaN ELSE sold - old
                        IN df.rows[i][elapsed_vars[k]] =
                            IF k <= NbRewritten(name) THEN gap ELSE old
               /\ IF NbDropped(name)
                  THEN /\ \A j \in 1..Len(df.cols) : df.cols[j] # "YrSold"
                       /\ \A i \in DOMAIN df.rows : "YrSold" \notin DOMAIN df.rows[i]
                       /\ NbRewritten(name) = Len(elapsed_vars)
                  ELSE /\ \E j \in 1..Len(df.cols) : df.cols[j] = "YrSold"
                       /\ \A i \in DOMAIN df.rows :
                            df.rows[i]["YrSold"] = orig.rows[i]["YrSold"]

\* both cells are over for a house built in 2000 and sold in 2005 whose
\* garage year is missing: YearBuilt holds 5, GarageYrBlt stays missing
C14_Witness ==
    /\ nb.heap # <<>>
    /\ nb.at = 2 * Len(elapsed_vars) + 2
    /\ nb.orig["df1"].rows[1]["YrSold"] = Num(2005)
    /\ nb.orig["df1"].rows[1]["YearBuilt"] = Num(2000)
    /\ nb.orig["df1"].rows[1]["GarageYrBlt"] = NaN
    /\ nb.heap[nb.names["X_train"]].rows[1]["YearBuilt"] = Num(5)
    /\ nb.heap[nb.names["X_train"]].rows[1]["GarageYrBlt"] = NaN
    /\ nb.heap[nb.names["X_test"]].rows[1]["YearRemodAdd"]
         = nb.orig["df2"].rows[1]["YrSold"] - Num(2003)

\* ------------------------------------------------------------ C16

\* C16 (as stated): every transformation step of the preparation returns a
\* new dataset and leaves the one it was given as it was: after a call, the
\* object passed in holds what it held before the call, and the object
\* returned is another one.
C16_NoStepMutatesItsArgument ==
    nb.call.fn # "none" =>
        /\ nb.heap[nb.call.arg] = nb.call.before
        /\ nb.call.ret # nb.call.arg

\* ------------------------------------------------------------ C15

\* the decimal number the characters a..b of c spell
RECURSIVE PlaceValue(_, _, _)
PlaceValue(c, a, b) ==
    IF a > b THEN 0 ELSE 10 * PlaceValue(c, a, b - 1) + DigitValue(c[b])

\* how many rows of `data` rows hold deck letter l as cabin_cat once the
\* missing cabins are called "Missing"
DeckCount(rows, l) ==
    Cardinality({i \in DOMAIN rows :
        (IF rows[i]["cabin"] = NoCabin THEN "Missing" ELSE rows[i]["cabin"][1]) = l})

OneRow(ds, i) == [ds EXCEPT !.rows = <<ds.rows[i]>>]

\* C17: a transformer of either pipeline, in fit or in predict, hands on as
\* many rows as it was given, and its i-th output row is what it makes of
\* the i-th input row alone; a completed predict returns as many predictions
\* as the input has rows, the i-th being what the pipeline predicts for the
\* i-th input row alone.
C17_RowAlignment ==
    [][ /\ (pc \in {"fit", "predict"} /\ pc' = pc /\ idx' = idx + 1) =>
            /\ Len(Xt'.rows) = Len(Xt.rows)
            /\ Len(Xt.rows) = Len(Data(arg).X.rows)
            /\ \A i \in 1..Len(Xt.rows) :
                \A one \in {StageOutput(Cfg, steps'[idx], OneRow(Xt, i))} :
                    one.ok /\ Len(one.val.rows) = 1 /\ one.val.rows[1] = Xt'.rows[i]
        /\ (pc = "predict" /\ PredictDone') =>
            /\ Len(result'.out) = Len(Data(arg).X.rows)
            /\ \A i \in 1..Len(Data(arg).X.rows) :
                \A feats \in {TransformUpTo(Pipeline(pipe), steps', Last - 1,
                                            OneRow(Data(arg).X, i))} :
                    /\ feats.ok
                    /\ \A one \in {StageOutput(Pipeline(pipe)[Last], steps'[Last],
                                                feats.val)} :
                        one.ok /\ Len(one.val) = 1 /\ one.val[1] = result'.out[i]
      ]_vars

\* predictions for the held-out houses, which differ from row to row
C17_Witness ==
    /\ PredictDone /\ pipe = "house_pipe" /\ arg = "house_test"
    /\ Len(result.out) = Len(Data(arg).X.rows)
    /\ Len(result.out) > 1
    /\ result.out[1] # result.out[2]

\* ------------------------------------------------------------ C18

ImputerKinds == {"MeanMedianImputer", "CategoricalImputer", "ArbitraryNumberImputer"}
EncodingKinds == {"RareLabelEncoder", "OrdinalEncoder", "EqualFrequencyDiscretiser"}

\* C19 (as stated): whenever an encoder or the discretiser is about to fit or
\* transform, in either pipeline and for any input, every column in its
\* scope is in the scope of an imputer placed earlier in the pipeline, and
\* the frame it is given has no missing entry in any column of its scope.
C19_NoMissingReachesEncoder ==
    (pc \in {"fit", "predict"} /\ Cfg.kind \in EncodingKinds) =>
        \A c \in Range(Cfg.variables) :
            /\ \E k \in 1..(idx - 1) :
                /\ Pipeline(pipe)[k].kind \in ImputerKinds
                /\ c \in Range(Pipeline(pipe)[k].variables)
            /\ c \in Range(Xt.cols) =>
                \A i \in DOMAIN Xt.rows : ~IsNull(Xt, c, Xt.rows[i][c])

====
